---- MODULE Spec2Model ----
(***************************************************************************)
(* Host arbitration of the multi-user product viewer: the socket.io server *)
(* of src/server.js (lines 110-252), its single global hostSocketId, the   *)
(* pendingRequests map and the expiry timers armed by request-host.        *)
(* Every handler runs to completion on the node event loop, so each        *)
(* handler (and each timer callback) is one atomic action.                 *)
(***************************************************************************)
EXTENDS Integers, Sequences, FiniteSets, TLC

\* ---------------------------------------------------------------- bounds
\* Number of socket connections ever opened (socket ids are never reused).
NumSockets == 2
\* Number of request ids uuidv4() hands out in a run.
MaxRequests == 2

\* Number of requests created in the runs that are followed to their end.
MaxFairRequests == 1

\* Number of file selections one page is uploading at the same time.
MaxSelections == 2

\* Number of messages in flight between one client and the server, each way.
MaxInFlight == 1

\* Number of parts uuidv4() names in a run, i.e. of uploads that are staged.
MaxUploads == 2

Sockets == 1..NumSockets
ReqIds == 1..MaxRequests

\* JavaScript null for hostSocketId, and the filler of unused message fields.
null == 0
\* JavaScript undefined: what reading a missing property yields.
undefined == -1
\* A requestId no request-host ever produced (a stale or invented token).
NoRequest == 0
\* A requestId that names a property every object inherits from
\* Object.prototype ("constructor", "toString", "__proto__", ...).
InheritedKey == -1

VARIABLES
  connected,        \* socket ids currently connected to io
  gone,             \* socket ids that have disconnected
  hostSocketId,     \* server.js:111
  pendingRequests,  \* server.js:112  requestId -> [timeout, requester]
  timers,           \* node timer table: armed handle -> closure of the callback
  nextRequestId,    \* the next value uuidv4() returns
  emitted,          \* messages the last handler emitted, in order
  lastEvent,        \* the event the last handler processed, as the handler reads it
  resolutions,      \* history: requestId -> terminal outcomes that took effect
  sentTo,           \* history: requestId -> the host its host-transfer-request was sent to
  announced,        \* history: the payload of the most recent host-changed broadcast, if any
  hostUploadBuffers, \* server.js:115  uploaderId -> parts staged, in arrival order
  nextPartId,       \* the next value uuidv4() returns for a part
  request,          \* the last POST /upload: its headers and file
  response,         \* the answer to it
  stagedFiles,      \* history: uploaderId -> files of its host-role uploads since its last flush
  hostStaged,       \* history: ids of the parts created for host-role uploads
  clients,          \* socket id -> the fields of the page's app object
  inbox,            \* socket id -> messages sent to the page, not yet handled by it
  outbox,           \* socket id -> events emitted by the page, not yet handled by the server
  selections,       \* socket id -> the runs of fileInput.onchange that have not ended
  completeTimer,    \* socket id -> app._productUploadCompleteTimeout is armed
  scene             \* socket id -> stream -> whose camera pose / model transform the page shows

hostVars == <<connected, gone, hostSocketId, pendingRequests, timers, nextRequestId,
              emitted, lastEvent, resolutions, sentTo, announced>>

uploadVars == <<hostUploadBuffers, nextPartId, request, response, stagedFiles, hostStaged>>

clientVars == <<clients, inbox, outbox>>

pickerVars == <<selections, completeTimer>>

controlVars == <<pickerVars, scene>>

pageVars == <<clientVars, controlVars>>

vars == <<hostVars, uploadVars, pageVars>>

\* ---------------------------------------------------------------- helpers
Restrict(f, S) == [x \in S |-> f[x]]

\* A message on the wire: the event name, the sockets it is delivered to and
\* its payload fields (unused fields are null).
Msg(event, to, host, requestId, requester) ==
  [event |-> event, to |-> to, hostSocketId |-> host,
   requestId |-> requestId, requester |-> requester]

Event(type, socket, requestId) ==
  [type |-> type, socket |-> socket, requestId |-> requestId]

\* io.emit: every socket connected at the time of the call.
\* (Variant: the broadcast leaves out the socket that has just become host.)
ioEmitMut(conn) == conn \ {hostSocketId'}
ioEmit(conn) == conn

\* socket.broadcast.emit: every connected socket but the one being served.
\* (Variant: io.emit, which echoes the message to its sender too.)
broadcastMut(conn, s) == conn
broadcast(conn, s) == conn \ {s}

\* io.to(id): the room of one socket id, empty when that socket is not connected.
\* (Variant: the message is broadcast with io.emit instead.)
ioToMut(conn, id) == conn
ioTo(conn, id) == conn \cap {id}

\* clearTimeout(handle): the handle leaves the timer table; unknown handle is ignored.
\* (Variant: the call is forgotten and the timer stays armed.)
clearTimeoutMut(t, handle) == t
clearTimeout(t, handle) == Restrict(t, DOMAIN t \ {handle})

\* delete pendingRequests[requestId]
\* (Variant: the delete is forgotten and the record stays.)
deleteRequestMut(p, requestId) == p
deleteRequest(p, requestId) == Restrict(p, DOMAIN p \ {requestId})

\* pendingRequests[requestId] on the plain object pendingRequests = {}: an own
\* property is a request record; an inherited one is a function of
\* Object.prototype, whose timeout and requester read as undefined; anything
\* else is undefined.
lookup(p, requestId) ==
  IF requestId \in DOMAIN p THEN p[requestId]
  ELSE [timeout |-> undefined, requester |-> undefined]

\* if (pendingRequests[requestId]): true for a record and for an inherited
\* property alike.
\* (Variant: only own properties count, as with a Map or hasOwnProperty.)
isPendingMut(p, requestId) == requestId \in DOMAIN p
isPending(p, requestId) == requestId \in DOMAIN p \/ requestId = InheritedKey

\* !hostSocketId
falsy(v) == v \in {null, undefined}

\* ---------------------------------------------------------------- pages
\* The fields of a page's app object that the host protocol reads and writes;
\* modal is the requestId of the host-request dialog it shows, if any.
Client(currentHostId, isHost, hostRequestPending, modal) ==
  [currentHostId |-> currentHostId, isHost |-> isHost,
   hostRequestPending |-> hostRequestPending, modal |-> modal]
NoClient == Client(null, FALSE, FALSE, NoRequest)

\* socket.emit(type, {requestId}) on a page.  site tells the two places apart
\* that emit register-host: the constructor ("load") and a click handler
\* ("button"); it is not part of what is sent.
Emit(type, requestId) == [type |-> type, requestId |-> requestId, site |-> "button"]
EmitOnLoad(type) == [type |-> type, requestId |-> NoRequest, site |-> "load"]

\* The two streams the host's page sends and the other pages show: the pose
\* of the camera and the transform of a model.
Streams == {"camera-update", "model-transform"}

\* ---------------------------------------------------------------- uploads
\* The files a client has at hand, by original name, and the absent file.
Files == {"a.glb", "b.glb"}
NoFile == "none"

\* The values of the x-socket-id header: the id of a socket, which nobody
\* knows before the server has assigned it, no header, or any other string,
\* among them the name of an inherited property.
UploaderIds(assigned) == assigned \cup {undefined, InheritedKey}

\* The values of x-uploader-role; an absent header reads as 'viewer'.
Roles == {"host", "viewer", "absent"}

Request(uploaderId, role, file) == [uploaderId |-> uploaderId, role |-> role, file |-> file]
Response(status, url, name) == [status |-> status, url |-> url, name |-> name]
NoRequestYet == Request(undefined, "absent", NoFile)
NoResponse == Response(0, NoFile, NoFile)

\* `${baseUrl}/uploads/${req.file.filename}`; multer keeps the original name.
fileUrl(file) == << "/uploads/", file >>

\* One entry of a buffer.
Part(file, id, sender) == [url |-> fileUrl(file), name |-> file, id |-> id, sender |-> sender]

\* The product-upload-complete broadcast.
UploadMsg(to, parts, sender) ==
  [event |-> "product-upload-complete", to |-> to, parts |-> parts, sender |-> sender]

\* hostUploadBuffers[uploaderId] || []
bufferOf(b, uploaderId) == IF uploaderId \in DOMAIN b THEN b[uploaderId] ELSE << >>

\* ---------------------------------------------------------------- history
\* resolutions records each terminal outcome that acted on a request: the
\* release-host and deny-host branches taken for a live record, and every run
\* of the expiry callback.  sentTo records, for each request created, the room
\* its host-transfer-request was addressed to.  announced holds the
\* hostSocketId field of the last host-changed broadcast emitted so far.
History ==
  /\ resolutions' =
       LET e == lastEvent' IN
       IF e.requestId \notin ReqIds THEN resolutions
       ELSE IF e.type = "release-host" /\ isPending(pendingRequests, e.requestId)
         THEN [resolutions EXCEPT ![e.requestId] = Append(@, "accept")]
       ELSE IF e.type = "deny-host" /\ isPending(pendingRequests, e.requestId)
         THEN [resolutions EXCEPT ![e.requestId] = Append(@, "deny")]
       ELSE IF e.type = "expiry"
         THEN [resolutions EXCEPT ![e.requestId] = Append(@, "expiry")]
       ELSE resolutions
  /\ sentTo' =
       IF lastEvent'.type = "request-host" /\ nextRequestId' # nextRequestId
         THEN [sentTo EXCEPT ![nextRequestId] = hostSocketId]
         ELSE sentTo
  /\ announced' =
       LET changes == SelectSeq(emitted', LAMBDA m : m.event = "host-changed") IN
       IF changes = << >> THEN announced
                          ELSE << changes[Len(changes)].hostSocketId >>

\* What the staging of uploads should be, written from the requests alone:
\* stagedFiles[u] lists the files of u's host-role uploads since the last
\* product-upload-complete broadcast made for u, and hostStaged holds the id
\* of every part created while a host-role upload with a socket id was served.
UploadHistory ==
  LET q == request' IN
  /\ stagedFiles' =
       IF lastEvent'.type = "upload" /\ q.file # NoFile /\ q.role = "host"
            /\ q.uploaderId \in Sockets
         THEN [stagedFiles EXCEPT ![q.uploaderId] = Append(@, q.file)]
       ELSE IF lastEvent'.type = "product-upload-complete" /\ emitted' # << >>
         THEN [stagedFiles EXCEPT ![lastEvent'.socket] = << >>]
       ELSE stagedFiles
  /\ hostStaged' =
       IF lastEvent'.type = "upload" /\ q.role = "host" /\ q.uploaderId \in Sockets
            /\ nextPartId' # nextPartId
         THEN hostStaged \cup {nextPartId}
         ELSE hostStaged

\* ---------------------------------------------------------------- Init
Init ==
  /\ connected = {}
  /\ gone = {}
  /\ hostSocketId = null
  /\ pendingRequests = << >>
  /\ timers = << >>
  /\ nextRequestId = 1
  /\ emitted = << >>
  /\ lastEvent = Event("none", null, NoRequest)
  /\ resolutions = [r \in ReqIds |-> << >>]
  /\ sentTo = [r \in ReqIds |-> null]
  /\ announced = << >>
  /\ hostUploadBuffers = << >>
  /\ nextPartId = 1
  /\ request = NoRequestYet
  /\ response = NoResponse
  /\ stagedFiles = [u \in Sockets |-> << >>]
  /\ hostStaged = {}
  /\ clients = [s \in Sockets |-> NoClient]
  /\ inbox = [s \in Sockets |-> << >>]
  /\ outbox = [s \in Sockets |-> << >>]
  /\ selections = [s \in Sockets |-> << >>]
  /\ completeTimer = [s \in Sockets |-> FALSE]
  /\ scene = [s \in Sockets |-> [stream \in Streams |-> "local"]]

\* ---------------------------------------------------------------- actions
\* io.on('connection'): a new socket with a fresh id; only handlers are installed.
\* Socket ids are opaque fresh tokens, handed out here in increasing order.
Connection(s) ==
  /\ s \notin connected \cup gone
  /\ \A t \in Sockets : t < s => t \in connected \cup gone
  /\ connected' = connected \cup {s}
  /\ emitted' = << >>
  /\ lastEvent' = Event("connection", s, NoRequest)
  /\ UNCHANGED <<gone, hostSocketId, pendingRequests, timers, nextRequestId>>
  /\ History
  /\ UNCHANGED uploadVars

\* register-host honoured only while nobody is host.
RegisterHostMut(s) ==
  /\ s \in connected
  /\ lastEvent' = Event("register-host", s, NoRequest)
  /\ IF falsy(hostSocketId)
       THEN /\ hostSocketId' = s
            /\ emitted' = << Msg("host-changed", ioEmit(connected), s, NoRequest, null) >>
       ELSE /\ emitted' = << >>
            /\ UNCHANGED hostSocketId
  /\ UNCHANGED <<connected, gone, pendingRequests, timers, nextRequestId>>
  /\ History
  /\ UNCHANGED uploadVars

\* socket.on('register-host')
RegisterHost(s) ==
  /\ s \in connected
  /\ hostSocketId' = s
  /\ emitted' = << Msg("host-changed", ioEmit(connected), s, NoRequest, null) >>
  /\ lastEvent' = Event("register-host", s, NoRequest)
  /\ UNCHANGED <<connected, gone, pendingRequests, timers, nextRequestId>>
  /\ History
  /\ UNCHANGED uploadVars

\* request-host without its else-if branch: the host's own request is treated
\* like anyone else's.
RequestHostMut(s) ==
  /\ s \in connected
  /\ lastEvent' = Event("request-host", s, NoRequest)
  /\ IF falsy(hostSocketId)
       THEN /\ hostSocketId' = s
            /\ emitted' = << Msg("host-changed", ioEmit(connected), s, NoRequest, null) >>
            /\ UNCHANGED <<pendingRequests, timers, nextRequestId>>
     ELSE /\ nextRequestId <= MaxRequests
          /\ LET requestId == nextRequestId IN
             /\ nextRequestId' = nextRequestId + 1
             /\ timers' = timers @@ (requestId :> [socket |-> s, requestId |-> requestId])
             /\ pendingRequests' =
                  pendingRequests @@ (requestId :> [timeout |-> requestId, requester |-> s])
             /\ emitted' = << Msg("host-transfer-request", ioTo(connected, hostSocketId),
                                  null, requestId, s) >>
          /\ UNCHANGED hostSocketId
  /\ UNCHANGED <<connected, gone>>
  /\ History
  /\ UNCHANGED uploadVars

\* socket.on('request-host'); the three branches of the if/else-if/else.
RequestHost(s) ==
  /\ s \in connected
  /\ lastEvent' = Event("request-host", s, NoRequest)
  /\ IF falsy(hostSocketId)
       THEN /\ hostSocketId' = s
            /\ emitted' = << Msg("host-changed", ioEmit(connected), s, NoRequest, null) >>
            /\ UNCHANGED <<pendingRequests, timers, nextRequestId>>
     ELSE IF hostSocketId = s
       THEN /\ emitted' = << >>
            /\ UNCHANGED <<hostSocketId, pendingRequests, timers, nextRequestId>>
     ELSE /\ nextRequestId <= MaxRequests
          /\ LET requestId == nextRequestId IN
             /\ nextRequestId' = nextRequestId + 1
             /\ timers' = timers @@ (requestId :> [socket |-> s, requestId |-> requestId])
             /\ pendingRequests' =
                  pendingRequests @@ (requestId :> [timeout |-> requestId, requester |-> s])
             /\ emitted' = << Msg("host-transfer-request", ioTo(connected, hostSocketId),
                                  null, requestId, s) >>
          /\ UNCHANGED hostSocketId
  /\ UNCHANGED <<connected, gone>>
  /\ History
  /\ UNCHANGED uploadVars

\* The setTimeout callback of request-host: runs for an armed timer, with the
\* socket.id and requestId its closure captured.
Expiry(handle) ==
  /\ handle \in DOMAIN timers
  /\ LET socket == timers[handle].socket
         requestId == timers[handle].requestId IN
     /\ hostSocketId' = socket
     /\ emitted' = << Msg("host-changed", ioEmit(connected), socket, NoRequest, null) >>
     /\ pendingRequests' = deleteRequest(pendingRequests, requestId)
     /\ lastEvent' = Event("expiry", null, requestId)
  /\ timers' = Restrict(timers, DOMAIN timers \ {handle})
  /\ UNCHANGED <<connected, gone, nextRequestId>>
  /\ History
  /\ UNCHANGED uploadVars

\* socket.on('release-host', data) with data = { requestId }.  The handler reads
\* data.requestId and nothing of the sending socket.
ReleaseHost(s, requestId) ==
  /\ s \in connected
  /\ lastEvent' = Event("release-host", null, requestId)
  /\ IF isPending(pendingRequests, requestId)
       THEN LET timeout == lookup(pendingRequests, requestId).timeout
                requester == lookup(pendingRequests, requestId).requester IN
            /\ timers' = clearTimeout(timers, timeout)
            /\ hostSocketId' = requester
            /\ emitted' = << Msg("host-changed", ioEmit(connected), requester, NoRequest, null) >>
            /\ pendingRequests' = deleteRequest(pendingRequests, requestId)
       ELSE /\ emitted' = << >>
            /\ UNCHANGED <<hostSocketId, pendingRequests, timers>>
  /\ UNCHANGED <<connected, gone, nextRequestId>>
  /\ History
  /\ UNCHANGED uploadVars

\* socket.on('deny-host', data) with data = { requestId }.  As release-host, the
\* handler reads nothing of the sending socket.
DenyHost(s, requestId) ==
  /\ s \in connected
  /\ lastEvent' = Event("deny-host", null, requestId)
  /\ IF isPending(pendingRequests, requestId)
       THEN LET timeout == lookup(pendingRequests, requestId).timeout
                requester == lookup(pendingRequests, requestId).requester IN
            /\ timers' = clearTimeout(timers, timeout)
            /\ emitted' = << Msg("transfer-denied", ioTo(connected, requester),
                                 null, requestId, null) >>
            /\ pendingRequests' = deleteRequest(pendingRequests, requestId)
       ELSE /\ emitted' = << >>
            /\ UNCHANGED <<pendingRequests, timers>>
  /\ UNCHANGED <<connected, gone, hostSocketId, nextRequestId>>
  /\ History
  /\ UNCHANGED uploadVars

\* give-up-host without its test of the sender.
GiveUpHostMut(s) ==
  /\ s \in connected
  /\ lastEvent' = Event("give-up-host", s, NoRequest)
  /\ hostSocketId' = null
  /\ emitted' = << Msg("host-changed", ioEmit(connected), null, NoRequest, null) >>
  /\ UNCHANGED <<connected, gone, pendingRequests, timers, nextRequestId>>
  /\ History
  /\ UNCHANGED uploadVars

\* socket.on('give-up-host')
GiveUpHost(s) ==
  /\ s \in connected
  /\ lastEvent' = Event("give-up-host", s, NoRequest)
  /\ IF s = hostSocketId
       THEN /\ hostSocketId' = null
            /\ emitted' = << Msg("host-changed", ioEmit(connected), null, NoRequest, null) >>
       ELSE /\ emitted' = << >>
            /\ UNCHANGED hostSocketId
  /\ UNCHANGED <<connected, gone, pendingRequests, timers, nextRequestId>>
  /\ History
  /\ UNCHANGED uploadVars

\* The test of the disconnect handler's for-in loop: the requests whose
\* requester is s.
\* (Variant: the loop matches nothing, so a disconnect sweeps no request.)
requestsOfMut(p, s) == {}
\* (Variant: the loop lacks its test, so a disconnect sweeps every request.)
requestsOfAnyone(p, s) == DOMAIN p
requestsOf(p, s) == {reqId \in DOMAIN p : p[reqId].requester = s}

\* The body of that loop, run for each such request in key order:
\* clearTimeout(pendingRequests[reqId].timeout); delete pendingRequests[reqId].
RECURSIVE sweep(_, _, _)
sweep(p, t, reqIds) ==
  IF reqIds = {} THEN [pendingRequests |-> p, timers |-> t]
  ELSE LET reqId == CHOOSE x \in reqIds : \A y \in reqIds : x <= y IN
       sweep(deleteRequest(p, reqId), clearTimeout(t, p[reqId].timeout), reqIds \ {reqId})

\* The disconnect handler as the first server of the repository had it
\* (server.js:45-51): it announces 'host-disconnected' and sweeps nothing.
DisconnectMut(s) ==
  /\ s \in connected
  /\ connected' = connected \ {s}
  /\ gone' = gone \cup {s}
  /\ lastEvent' = Event("disconnect", s, NoRequest)
  /\ IF s = hostSocketId
       THEN /\ hostSocketId' = null
            /\ emitted' = << Msg("host-disconnected", ioEmit(connected'), null, NoRequest, null) >>
       ELSE /\ emitted' = << >>
            /\ UNCHANGED hostSocketId
  /\ UNCHANGED <<pendingRequests, timers, nextRequestId>>
  /\ History
  /\ UNCHANGED uploadVars

\* socket.on('disconnect'): socket.io has removed the socket from the namespace
\* before the handler runs, so io.emit reaches the remaining sockets only.
Disconnect(s) ==
  /\ s \in connected
  /\ connected' = connected \ {s}
  /\ gone' = gone \cup {s}
  /\ lastEvent' = Event("disconnect", s, NoRequest)
  /\ IF s = hostSocketId
       THEN /\ hostSocketId' = null
            /\ emitted' = << Msg("host-changed", ioEmit(connected'), null, NoRequest, null) >>
       ELSE /\ emitted' = << >>
            /\ UNCHANGED hostSocketId
  /\ LET after == sweep(pendingRequests, timers, requestsOf(pendingRequests, s)) IN
     /\ timers' = after.timers
     /\ pendingRequests' = after.pendingRequests
  /\ UNCHANGED nextRequestId
  /\ History
  /\ UNCHANGED uploadVars

\* The requestIds a client can put in a release-host or deny-host: one the
\* server has issued, or a token it never issued, among them the name of an
\* inherited property.
KnownRequestIds == (1..(nextRequestId - 1)) \cup {NoRequest, InheritedKey}

\* release-host and deny-host read nothing of the socket they arrive on, so
\* every connected sender yields the same step; one sender stands for all.
AnySender == IF connected = {} THEN {} ELSE {CHOOSE s \in connected : TRUE}

Next ==
  \/ \E s \in Sockets : Connection(s)
       /\ UNCHANGED pageVars
  \/ \E s \in Sockets : RegisterHost(s)
       /\ UNCHANGED pageVars
  \/ \E s \in Sockets : RequestHost(s)
       /\ UNCHANGED pageVars
  \/ \E handle \in ReqIds : Expiry(handle)
       /\ UNCHANGED pageVars
  \/ \E s \in AnySender, requestId \in KnownRequestIds : ReleaseHost(s, requestId)
       /\ UNCHANGED pageVars
  \/ \E s \in AnySender, requestId \in KnownRequestIds : DenyHost(s, requestId)
       /\ UNCHANGED pageVars
  \/ \E s \in Sockets : GiveUpHost(s)
       /\ UNCHANGED pageVars
  \/ \E s \in Sockets : Disconnect(s)
       /\ UNCHANGED pageVars

Spec == Init /\ [][Next]_vars

\* ---------------------------------------------------------------- relay
\* if (socket.id === hostSocketId): the gate of camera-update and model-transform.
\* (Variant: the gate is missing and every sender is relayed.)
isHostSocketMut(s) == TRUE
isHostSocket(s) == s = hostSocketId

\* The body shared by the two relay handlers: a message from the host is sent on
\* with socket.broadcast.emit, any other is dropped.  The payload is passed
\* through untouched and is left out of the message record.
relay(event, s) ==
  /\ s \in connected
  /\ lastEvent' = Event(event, s, NoRequest)
  /\ emitted' = IF isHostSocket(s)
                  THEN << Msg(event, broadcast(connected, s), null, NoRequest, null) >>
                  ELSE << >>
  /\ UNCHANGED <<connected, gone, hostSocketId, pendingRequests, timers, nextRequestId>>
  /\ History
  /\ UNCHANGED uploadVars

\* socket.on('model-transform', modelState)
ModelTransform(s) == relay("model-transform", s)

\* socket.on('camera-update', cameraState)
CameraUpdate(s) == relay("camera-update", s)

\* The host machine together with the two relayed streams.
NextRelay ==
  \/ Next
  \/ \E s \in Sockets : ModelTransform(s)
       /\ UNCHANGED pageVars
  \/ \E s \in Sockets : CameraUpdate(s)
       /\ UNCHANGED pageVars

SpecRelay == Init /\ [][NextRelay]_vars

\* ---------------------------------------------------------------- staging
\* const uploaderRole = req.headers['x-uploader-role'] || 'viewer'
uploaderRole(role) == IF role = "absent" THEN "viewer" ELSE role

\* if (uploaderRole === 'host' && uploaderId)
stagesMut(role, uploaderId) == ~falsy(uploaderId)
stages(role, uploaderId) == uploaderRole(role) = "host" /\ ~falsy(uploaderId)

\* hostUploadBuffers[uploaderId].push(part), after the buffer was created if
\* it did not exist.
pushMut(b, uploaderId, part) ==
  [u \in DOMAIN b \cup {uploaderId} |-> IF u = uploaderId THEN << part >> ELSE b[u]]
\* (Variant: one buffer shared by all uploaders, so that a part is staged
\* under every id that has a buffer.)
pushShared(b, uploaderId, part) ==
  [u \in DOMAIN b \cup {uploaderId} |-> Append(bufferOf(b, u), part)]
push(b, uploaderId, part) ==
  [u \in DOMAIN b \cup {uploaderId} |->
     IF u = uploaderId THEN Append(bufferOf(b, uploaderId), part) ELSE b[u]]

\* hostUploadBuffers[uploaderId] = []
clearBufferMut(b, uploaderId) == b
clearBuffer(b, uploaderId) ==
  [u \in DOMAIN b \cup {uploaderId} |-> IF u = uploaderId THEN << >> ELSE b[u]]

\* if (!req.file)
missingMut(file) == FALSE
missing(file) == file = NoFile

\* POST /upload.  Without a file the answer is 400.  A host-role upload with
\* a socket id is staged under that id; hostUploadBuffers is a plain object,
\* so for the name of an inherited property the buffer is found truthy, is not
\* created, and push throws: the answer is 500 and nothing is staged.  Every
\* other upload is answered with its URL and name.
Upload(uploaderId, role, file) ==
  /\ request' = Request(uploaderId, role, file)
  /\ lastEvent' = Event("upload", null, NoRequest)
  /\ emitted' = << >>
  /\ IF missing(file)
       THEN /\ response' = Response(400, NoFile, NoFile)
            /\ UNCHANGED <<hostUploadBuffers, nextPartId>>
     ELSE IF stages(role, uploaderId) /\ uploaderId = InheritedKey
       THEN /\ response' = Response(500, NoFile, NoFile)
            /\ UNCHANGED <<hostUploadBuffers, nextPartId>>
     ELSE IF stages(role, uploaderId)
       THEN /\ nextPartId <= MaxUploads
            /\ hostUploadBuffers' =
                 push(hostUploadBuffers, uploaderId, Part(file, nextPartId, uploaderId))
            /\ nextPartId' = nextPartId + 1
            /\ response' = Response(200, fileUrl(file), file)
       ELSE /\ response' = Response(200, fileUrl(file), file)
            /\ UNCHANGED <<hostUploadBuffers, nextPartId>>
  /\ UNCHANGED <<connected, gone, hostSocketId, pendingRequests, timers, nextRequestId>>
  /\ History
  /\ UploadHistory

\* socket.on('product-upload-complete')
ProductUploadComplete(s) ==
  /\ s \in connected
  /\ lastEvent' = Event("product-upload-complete", s, NoRequest)
  /\ UNCHANGED <<connected, gone, hostSocketId, pendingRequests, timers, nextRequestId>>
  /\ LET partsBuffer == bufferOf(hostUploadBuffers, s) IN
     IF Len(partsBuffer) > 0
       THEN /\ emitted' = << UploadMsg(ioEmit(connected), partsBuffer, s) >>
            /\ hostUploadBuffers' = clearBuffer(hostUploadBuffers, s)
       ELSE /\ emitted' = << >>
            /\ UNCHANGED hostUploadBuffers
  /\ UNCHANGED <<nextPartId, request, response>>
  /\ History
  /\ UploadHistory

\* The server as the uploads see it: clients come and go, files are uploaded
\* and batches completed.  No handler of this part reads hostSocketId.
NextUpload ==
  \/ \E s \in Sockets : Connection(s)
       /\ UNCHANGED pageVars
  \/ \E s \in Sockets : Disconnect(s)
       /\ UNCHANGED pageVars
  \/ \E uploaderId \in UploaderIds(connected \cup gone), role \in Roles,
        file \in Files \cup {NoFile} :
       Upload(uploaderId, role, file)
       /\ UNCHANGED pageVars
  \/ \E s \in Sockets : ProductUploadComplete(s)
       /\ UNCHANGED pageVars

SpecUpload == Init /\ [][NextUpload]_vars

\* The uploads together with changes of the host.
NextHostUpload ==
  \/ NextUpload
  \/ \E s \in Sockets : RegisterHost(s)
       /\ UNCHANGED pageVars
  \/ \E s \in Sockets : GiveUpHost(s)
       /\ UNCHANGED pageVars

SpecHostUpload == Init /\ [][NextHostUpload]_vars

\* ---------------------------------------------------------------- clients
\* The ?role= parameter of the page's URL.
PageRoles == {"host", "viewer"}

\* socket.emit on page s: the event joins the ones not yet handled by the server.
send(s, e) ==
  /\ Len(outbox[s]) < MaxInFlight
  /\ outbox' = [outbox EXCEPT ![s] = Append(@, e)]

\* The messages of msgs addressed to socket t, in the order they were emitted.
addressed(msgs, t) == SelectSeq(msgs, LAMBDA m : t \in m.to)

\* What the server emitted in this step reaches the connections it was
\* addressed to, behind what they have not handled yet; a connection that is
\* closed receives nothing.
Dispatch ==
  /\ inbox' = [t \in Sockets |->
                 IF t \in connected' THEN inbox[t] \o addressed(emitted', t) ELSE << >>]
  /\ \A t \in Sockets : Len(inbox'[t]) <= MaxInFlight

\* The server takes the next event of socket s, which is of this type.
Receive(s, type) ==
  /\ outbox[s] # << >>
  /\ Head(outbox[s]).type = type
  /\ outbox' = [outbox EXCEPT ![s] = Tail(@)]
  /\ UNCHANGED clients

\* An event the server has no handler for.
NoHandler(s, type) ==
  /\ s \in connected
  /\ emitted' = << >>
  /\ lastEvent' = Event(type, s, NoRequest)
  /\ UNCHANGED <<connected, gone, hostSocketId, pendingRequests, timers, nextRequestId>>
  /\ History
  /\ UNCHANGED uploadVars

\* A page is loaded: the App constructor reads isHost from the URL, opens the
\* socket and, as host, emits register-host; setupUIControls resets the rest.
Open(s, role) ==
  /\ Connection(s)
  /\ clients' = [clients EXCEPT ![s] = Client(null, role = "host", FALSE, NoRequest)]
  /\ outbox' = [outbox EXCEPT ![s] =
                  IF role = "host" THEN << EmitOnLoad("register-host") >> ELSE << >>]
  /\ UNCHANGED inbox

\* The page goes away.  Its events reach the server before the disconnect does.
Close(s) ==
  /\ outbox[s] = << >>
  /\ Disconnect(s)
  /\ clients' = [clients EXCEPT ![s] = NoClient]
  /\ UNCHANGED outbox
  /\ Dispatch

\* hostButton.addEventListener('click')
HostButton(s) ==
  /\ s \in connected
  /\ LET c == clients[s] IN
     IF c.isHost
       THEN /\ send(s, Emit("give-up-host", NoRequest))
            /\ UNCHANGED clients
     ELSE IF falsy(c.currentHostId)
       THEN /\ clients' = [clients EXCEPT ![s].currentHostId = s, ![s].isHost = TRUE]
            /\ send(s, Emit("register-host", NoRequest))
     ELSE IF ~c.hostRequestPending
       THEN /\ clients' = [clients EXCEPT ![s].hostRequestPending = TRUE]
            /\ send(s, Emit("request-host", NoRequest))
       ELSE UNCHANGED <<clients, outbox>>
  /\ UNCHANGED <<hostVars, uploadVars, inbox>>

\* viewerButton.addEventListener('click')
ViewerButton(s) ==
  /\ s \in connected
  /\ LET c == clients[s] IN
     IF c.isHost
       THEN /\ send(s, Emit("give-up-host", NoRequest))
            /\ UNCHANGED clients
     ELSE IF c.hostRequestPending
       THEN /\ send(s, Emit("cancel-host-request", NoRequest))
            /\ clients' = [clients EXCEPT ![s].hostRequestPending = FALSE]
       ELSE UNCHANGED <<clients, outbox>>
  /\ UNCHANGED <<hostVars, uploadVars, inbox>>

\* The socket listeners of the page, run on the oldest message not yet handled.
Deliver(s) ==
  /\ s \in connected
  /\ inbox[s] # << >>
  /\ LET m == Head(inbox[s])
         c == clients[s]
     IN clients' =
          IF m.event = "host-changed"
            THEN [clients EXCEPT ![s].currentHostId = m.hostSocketId,
                                 ![s].isHost = IF falsy(m.hostSocketId) THEN FALSE
                                               ELSE m.hostSocketId = s,
                                 ![s].hostRequestPending = FALSE]
          ELSE IF m.event = "transfer-denied"
            THEN [clients EXCEPT ![s].hostRequestPending = FALSE]
          ELSE IF m.event = "host-transfer-request" /\ c.isHost
            THEN [clients EXCEPT ![s].modal = m.requestId]
          ELSE clients
  /\ inbox' = [inbox EXCEPT ![s] = Tail(@)]
  /\ UNCHANGED <<hostVars, uploadVars, outbox>>

\* The host answers the dialog: release-host or deny-host with the requestId
\* of the host-transfer-request shown, or the dialog closes unanswered.
Answer(s, type) ==
  /\ s \in connected
  /\ clients[s].modal # NoRequest
  /\ clients' = [clients EXCEPT ![s].modal = NoRequest]
  /\ IF type = "none" THEN UNCHANGED outbox
                      ELSE send(s, Emit(type, clients[s].modal))
  /\ UNCHANGED <<hostVars, uploadVars, inbox>>

\* Pages and server together, with the messages between them in flight.
NextClient ==
  \/ \E s \in Sockets, role \in PageRoles : Open(s, role)
       /\ UNCHANGED controlVars
  \/ \E s \in Sockets : Close(s)
       /\ UNCHANGED controlVars
  \/ \E s \in Sockets : HostButton(s)
       /\ UNCHANGED controlVars
  \/ \E s \in Sockets : ViewerButton(s)
       /\ UNCHANGED controlVars
  \/ \E s \in Sockets : Deliver(s)
       /\ UNCHANGED controlVars
  \/ \E s \in Sockets : Answer(s, "release-host")
       /\ UNCHANGED controlVars
  \/ \E s \in Sockets : Answer(s, "deny-host")
       /\ UNCHANGED controlVars
  \/ \E s \in Sockets : Answer(s, "none")
       /\ UNCHANGED controlVars
  \/ \E s \in Sockets : Receive(s, "register-host") /\ RegisterHost(s) /\ Dispatch
       /\ UNCHANGED controlVars
  \/ \E s \in Sockets : Receive(s, "request-host") /\ RequestHost(s) /\ Dispatch
       /\ UNCHANGED controlVars
  \/ \E s \in Sockets : Receive(s, "give-up-host") /\ GiveUpHost(s) /\ Dispatch
       /\ UNCHANGED controlVars
  \/ \E s \in Sockets :
       /\ Receive(s, "release-host")
       /\ ReleaseHost(s, Head(outbox[s]).requestId)
       /\ Dispatch
       /\ UNCHANGED controlVars
  \/ \E s \in Sockets :
       /\ Receive(s, "deny-host")
       /\ DenyHost(s, Head(outbox[s]).requestId)
       /\ Dispatch
       /\ UNCHANGED controlVars
  \/ \E s \in Sockets :
       /\ Receive(s, "cancel-host-request")
       /\ NoHandler(s, "cancel-host-request")
       /\ Dispatch
       /\ UNCHANGED controlVars
  \/ \E handle \in ReqIds : Expiry(handle) /\ Dispatch /\ UNCHANGED <<clients, outbox>>
       /\ UNCHANGED controlVars

SpecClient == Init /\ [][NextClient]_vars

\* ---------------------------------------------------------------- picker
\* The upload button of a page.  Every change of the file input starts a run
\* of the async onchange handler; a run is what it has left to upload and how
\* many files it has uploaded.
Run(left, sent) == [left |-> left, sent |-> sent]

\* The files of one selection, in the order of event.target.files.
Picks == {<< "a.glb" >>, << "a.glb", "b.glb" >>}

remove(runs, k) == [i \in 1..(Len(runs) - 1) |-> IF i < k THEN runs[i] ELSE runs[i + 1]]

\* fileInput.onchange starts: the user has chosen files.
Select(s, files) ==
  /\ s \in connected
  /\ Len(selections[s]) < MaxSelections
  /\ selections' = [selections EXCEPT ![s] = Append(@, Run(files, 0))]
  /\ UNCHANGED <<hostVars, uploadVars, clientVars, completeTimer, scene>>

\* One turn of the handler's loop in run k of page s: the file is posted with
\* the page's socket id and the role its isHost flag gives, and the server
\* answers.  After the last file the handler, on a page that is host, clears
\* the completion timer and arms it again.
Fetch(s, k) ==
  /\ s \in connected
  /\ k \in 1..Len(selections[s])
  /\ LET run == selections[s][k]
         role == IF clients[s].isHost THEN "host" ELSE "viewer"
     IN /\ Upload(s, role, Head(run.left))
        /\ IF Len(run.left) > 1
             THEN /\ selections' =
                       [selections EXCEPT ![s][k] = Run(Tail(run.left), run.sent + 1)]
                  /\ UNCHANGED completeTimer
             ELSE /\ selections' = [selections EXCEPT ![s] = remove(@, k)]
                  /\ completeTimer' =
                       IF clients[s].isHost THEN [completeTimer EXCEPT ![s] = TRUE]
                                            ELSE completeTimer
  /\ UNCHANGED <<clientVars, scene>>

\* The callback of the 500 ms timer.
CompleteTimeout(s) ==
  /\ s \in connected
  /\ completeTimer[s]
  /\ completeTimer' = [completeTimer EXCEPT ![s] = FALSE]
  /\ send(s, Emit("product-upload-complete", NoRequest))
  /\ UNCHANGED <<hostVars, uploadVars, clients, inbox, selections, scene>>

\* Pages that upload, and the server that stages and flushes.  What the
\* pages do with the product-upload-complete broadcast touches none of the
\* fields kept here.
NextPicker ==
  \/ \E s \in Sockets, role \in PageRoles : Open(s, role)
       /\ UNCHANGED controlVars
  \/ \E s \in Sockets : Receive(s, "register-host") /\ RegisterHost(s) /\ Dispatch
       /\ UNCHANGED controlVars
  \/ \E s \in Sockets : Deliver(s)
       /\ UNCHANGED controlVars
  \/ \E s \in Sockets, files \in Picks : Select(s, files)
  \/ \E s \in Sockets, k \in 1..MaxSelections : Fetch(s, k)
  \/ \E s \in Sockets : CompleteTimeout(s)
  \/ \E s \in Sockets :
       /\ Receive(s, "product-upload-complete")
       /\ ProductUploadComplete(s)
       /\ UNCHANGED <<inbox, controlVars>>

SpecPicker == Init /\ [][NextPicker]_vars

\* ---------------------------------------------------------------- pointer
\* The annotation pointer of the host's page: uiControls.js emits
\* host-pointer-toggle and app.js emits host-pointer-update.  The server
\* installs no handler for either event.
PointerEvents == {"host-pointer-toggle", "host-pointer-update"}

HostPointerToggle(s) == NoHandler(s, "host-pointer-toggle")

HostPointerUpdate(s) == NoHandler(s, "host-pointer-update")

\* The host machine together with the pointer events sent to it.
NextPointer ==
  \/ Next
  \/ \E s \in Sockets : HostPointerToggle(s)
       /\ UNCHANGED pageVars
  \/ \E s \in Sockets : HostPointerUpdate(s)
       /\ UNCHANGED pageVars

SpecPointer == Init /\ [][NextPointer]_vars

\* ---------------------------------------------------------------- fairness
\* An armed timer fires once its delay has passed: node runs the callback of
\* every timer that is not cleared.
TimersFire == \A handle \in ReqIds : WF_vars(Expiry(handle) /\ UNCHANGED pageVars)

\* The host machine in the runs followed to their end: as Next, with fewer
\* requests created.
NextFair ==
  \/ \E s \in Sockets : Connection(s)
       /\ UNCHANGED pageVars
  \/ \E s \in Sockets : RegisterHost(s)
       /\ UNCHANGED pageVars
  \/ \E s \in Sockets : RequestHost(s)
       /\ nextRequestId' <= MaxFairRequests + 1
       /\ UNCHANGED pageVars
  \/ \E handle \in ReqIds : Expiry(handle)
       /\ UNCHANGED pageVars
  \/ \E s \in AnySender, requestId \in KnownRequestIds : ReleaseHost(s, requestId)
       /\ UNCHANGED pageVars
  \/ \E s \in AnySender, requestId \in KnownRequestIds : DenyHost(s, requestId)
       /\ UNCHANGED pageVars
  \/ \E s \in Sockets : GiveUpHost(s)
       /\ UNCHANGED pageVars
  \/ \E s \in Sockets : Disconnect(s)
       /\ UNCHANGED pageVars

SpecFair == Init /\ [][NextFair]_vars /\ TimersFire

\* ================================================================ claims
HostChanged(to, host) == Msg("host-changed", to, host, NoRequest, null)

\* The step just taken processed an event of one of these types for request r.
StepOn(types, r) == lastEvent'.type \in types /\ lastEvent'.requestId = r

HostChangedEmitted(msgs) == \E i \in 1..Len(msgs) : msgs[i].event = "host-changed"

\* C1: for each requestId at most one of accept, deny and expiry ever takes
\* effect, and once one has, the record is out of pendingRequests and its timer
\* is no longer armed.
C1_OneTerminalOutcome ==
  \A r \in ReqIds :
    /\ Len(resolutions[r]) <= 1
    /\ Len(resolutions[r]) = 1 => r \notin DOMAIN pendingRequests /\ r \notin DOMAIN timers

\* A request that expired, and a release-host for it that arrived afterwards.
C1_Witness ==
  \E r \in ReqIds :
    /\ resolutions[r] = << "expiry" >>
    /\ lastEvent = Event("release-host", null, r)

\* C2: a release-host or deny-host with a live requestId sent by a client that
\* is not the current host changes neither hostSocketId nor pendingRequests and
\* emits nothing.
C2_OnlyHostResolves ==
  [][\A r \in DOMAIN pendingRequests, s \in connected \ {hostSocketId} :
       (ReleaseHost(s, r) \/ DenyHost(s, r))
         => /\ hostSocketId' = hostSocketId
            /\ pendingRequests' = pendingRequests
            /\ emitted' = << >>]_vars

\* C3: when the host a pending request was addressed to is replaced by a step
\* that does not resolve that request, the request is swept (removed, timer
\* cancelled); and an expiry never takes the host role from a host that was not
\* sent the host-transfer-request of the expiring request.
C3_OrphansSwept ==
  [][/\ \A r \in DOMAIN pendingRequests :
          (/\ hostSocketId = sentTo[r]
           /\ hostSocketId' # hostSocketId
           /\ ~StepOn({"release-host", "deny-host", "expiry"}, r))
            => r \notin DOMAIN pendingRequests' /\ r \notin DOMAIN timers'
     /\ \A r \in ReqIds :
          (StepOn({"expiry"}, r) /\ hostSocketId \in Sockets \ {sentTo[r]})
            => hostSocketId' = hostSocketId]_vars

\* C4: when the timer of a request fires whose requester is still connected and
\* that neither release-host nor deny-host has resolved, hostSocketId becomes
\* the requester, the request is removed, exactly one host-changed carrying the
\* requester goes to all connected clients, and the request never produces
\* another outcome.
C4_ExpiryTransfers ==
  [][\A r \in ReqIds :
       /\ (/\ StepOn({"expiry"}, r)
           /\ r \in DOMAIN pendingRequests
           /\ resolutions[r] = << >>
           /\ pendingRequests[r].requester \in connected)
            => /\ hostSocketId' = pendingRequests[r].requester
               /\ r \notin DOMAIN pendingRequests'
               /\ r \notin DOMAIN timers'
               /\ emitted' = << HostChanged(connected, pendingRequests[r].requester) >>
               /\ resolutions'[r] = << "expiry" >>
       /\ resolutions[r] = << "expiry" >> => resolutions'[r] = << "expiry" >>]_vars

\* The timer of a request has just fired while the requester and the host it
\* displaced were both connected.
C4_Witness ==
  /\ lastEvent.type = "expiry"
  /\ resolutions[lastEvent.requestId] = << "expiry" >>
  /\ Len(emitted) = 1
  /\ emitted[1].hostSocketId = hostSocketId
  /\ emitted[1].to = {hostSocketId, sentTo[lastEvent.requestId]}
  /\ Cardinality(emitted[1].to) = 2

\* C5: release-host for a live request makes the request's requester the host,
\* broadcasts host-changed with it to all, and removes the request; afterwards
\* a deny-host, release-host or timer firing for that requestId changes nothing
\* and emits nothing.
C5_ReleaseTransfers ==
  [][\A r \in ReqIds :
       /\ (StepOn({"release-host"}, r) /\ r \in DOMAIN pendingRequests)
            => /\ hostSocketId' = pendingRequests[r].requester
               /\ r \in DOMAIN timers
               /\ pendingRequests[r].requester = timers[r].socket
               /\ emitted' = << HostChanged(connected, pendingRequests[r].requester) >>
               /\ r \notin DOMAIN pendingRequests'
       /\ ("accept" \in {resolutions[r][i] : i \in 1..Len(resolutions[r])}
             /\ StepOn({"release-host", "deny-host", "expiry"}, r))
            => /\ UNCHANGED <<hostSocketId, pendingRequests, timers, connected>>
               /\ emitted' = << >>]_vars

\* A released request, and a deny-host for it that arrived afterwards.
C5_Witness ==
  \E r \in ReqIds :
    /\ resolutions[r] = << "accept" >>
    /\ lastEvent = Event("deny-host", null, r)
    /\ hostSocketId \in connected \ {sentTo[r]}

\* C6: deny-host for a live request sends transfer-denied to the request's
\* requester and to nobody else, removes the request and cancels its timer,
\* leaves hostSocketId unchanged and emits no host-changed.
C6_DenyNotifiesRequester ==
  [][\A r \in DOMAIN pendingRequests :
       StepOn({"deny-host"}, r)
         => /\ emitted' = << Msg("transfer-denied", {pendingRequests[r].requester},
                                 null, r, null) >>
            /\ r \in DOMAIN timers
            /\ pendingRequests[r].requester = timers[r].socket
            /\ r \notin DOMAIN pendingRequests'
            /\ r \notin DOMAIN timers'
            /\ hostSocketId' = hostSocketId]_vars

\* A request was just denied by the host, which is connected and not among the
\* recipients of transfer-denied.
C6_Witness ==
  /\ lastEvent.type = "deny-host"
  /\ lastEvent.requestId \in ReqIds
  /\ resolutions[lastEvent.requestId] = << "deny" >>
  /\ Len(emitted) = 1
  /\ emitted[1].event = "transfer-denied"
  /\ Cardinality(emitted[1].to) = 1
  /\ hostSocketId = sentTo[lastEvent.requestId]
  /\ hostSocketId \in connected \ emitted[1].to

\* C7: after a client disconnects no request of it remains and none of its
\* timers is armed, hostSocketId is never its id and no host-changed naming it
\* is broadcast.
C7_RequesterDisconnect ==
  /\ \A r \in DOMAIN pendingRequests : pendingRequests[r].requester \notin gone
  /\ \A h \in DOMAIN timers : timers[h].socket \notin gone
  /\ hostSocketId \notin gone
  /\ \A i \in 1..Len(emitted) :
       emitted[i].event = "host-changed" => emitted[i].hostSocketId \notin gone

\* The requester of an unresolved request has disconnected, and a release-host
\* for that request arrived afterwards.
C7_Witness ==
  \E r \in ReqIds :
    /\ sentTo[r] # null
    /\ r \notin DOMAIN pendingRequests
    /\ resolutions[r] = << >>
    /\ gone # {}
    /\ lastEvent = Event("release-host", null, r)

\* C8: the disconnect of the client that is the host sets hostSocketId to none
\* and, in the same step, broadcasts host-changed(none) to all remaining clients.
C8_HostDisconnect ==
  [][(lastEvent'.type = "disconnect" /\ lastEvent'.socket = hostSocketId /\ connected' # connected)
       => /\ hostSocketId' = null
          /\ emitted' = << HostChanged(connected \ {lastEvent'.socket}, null) >>]_vars

\* The host has just disconnected while a request addressed to it was pending;
\* the requester remains and receives host-changed(none).
C8_Witness ==
  /\ lastEvent.type = "disconnect"
  /\ hostSocketId = null
  /\ Len(emitted) = 1
  /\ emitted[1].to = connected
  /\ connected # {}
  /\ \E r \in DOMAIN pendingRequests : sentTo[r] = lastEvent.socket

\* C9: once the host a request was addressed to has disconnected, no
\* release-host, deny-host or expiry of that request changes hostSocketId or
\* emits a host-changed.
C9_OrphansHarmless ==
  [][\A r \in ReqIds :
       (/\ sentTo[r] \in gone
        /\ StepOn({"release-host", "deny-host", "expiry"}, r))
         => /\ hostSocketId' = hostSocketId
            /\ ~HostChangedEmitted(emitted')]_vars

\* C10: request-host from c while another client h is host creates exactly one
\* request (requester c, timer armed), leaves hostSocketId unchanged and sends
\* host-transfer-request {requestId, requester: c} to h only.
C10_RequestWhileOwned ==
  [][(/\ lastEvent'.type = "request-host"
      /\ hostSocketId \in Sockets \ {lastEvent'.socket})
       => \E r \in ReqIds \ DOMAIN pendingRequests :
            /\ DOMAIN pendingRequests' = DOMAIN pendingRequests \cup {r}
            /\ \A q \in DOMAIN pendingRequests : pendingRequests'[q] = pendingRequests[q]
            /\ pendingRequests'[r].requester = lastEvent'.socket
            /\ DOMAIN timers' = DOMAIN timers \cup {r}
            /\ pendingRequests'[r].timeout = r
            /\ r \notin DOMAIN timers
            /\ hostSocketId' = hostSocketId
            /\ emitted' = << Msg("host-transfer-request", {hostSocketId},
                                 null, r, lastEvent'.socket) >>]_vars

\* A request was just created: the host alone was sent host-transfer-request,
\* the connected requester was not.
C10_Witness ==
  /\ lastEvent.type = "request-host"
  /\ Len(emitted) = 1
  /\ emitted[1].event = "host-transfer-request"
  /\ emitted[1].to = {hostSocketId}
  /\ emitted[1].requester \in connected \ {hostSocketId}
  /\ emitted[1].requestId \in DOMAIN pendingRequests \cap DOMAIN timers

\* C11: request-host from c while hostSocketId is none makes c the host at
\* once, broadcasts host-changed(c) to all clients, creates no request and arms
\* no timer.
C11_RequestWhileUnowned ==
  [][(lastEvent'.type = "request-host" /\ falsy(hostSocketId))
       => /\ hostSocketId' = lastEvent'.socket
          /\ emitted' = << HostChanged(connected, lastEvent'.socket) >>
          /\ UNCHANGED <<pendingRequests, timers, nextRequestId>>]_vars

\* A client has just been granted the vacant host role with both clients connected.
C11_Witness ==
  /\ lastEvent.type = "request-host"
  /\ hostSocketId = lastEvent.socket
  /\ Len(emitted) = 1
  /\ emitted[1] = HostChanged(connected, hostSocketId)
  /\ Cardinality(connected) = 2

\* C12: request-host from the client that is the host changes neither
\* hostSocketId nor pendingRequests, arms no timer and emits nothing.
C12_RequestBySelf ==
  [][(lastEvent'.type = "request-host" /\ hostSocketId = lastEvent'.socket)
       => /\ UNCHANGED <<hostSocketId, pendingRequests, timers, nextRequestId>>
          /\ emitted' = << >>]_vars

\* The host has just sent request-host while another client was connected.
C12_Witness ==
  /\ lastEvent.type = "request-host"
  /\ hostSocketId = lastEvent.socket
  /\ emitted = << >>
  /\ Cardinality(connected) = 2

\* C19: a release-host or deny-host whose requestId is not live (never issued,
\* or already resolved or swept) changes neither hostSocketId nor
\* pendingRequests nor the timers and emits nothing.
C19_StaleIgnored ==
  [][\A r \in (ReqIds \cup {NoRequest, InheritedKey}) \ DOMAIN pendingRequests :
       StepOn({"release-host", "deny-host"}, r)
         => /\ UNCHANGED <<hostSocketId, pendingRequests, timers>>
            /\ emitted' = << >>]_vars

\* C20: give-up-host from the host sets hostSocketId to none and broadcasts
\* host-changed(none) to all; from any other client it changes nothing and emits
\* nothing.
C20_GiveUp ==
  [][lastEvent'.type = "give-up-host"
       => /\ IF lastEvent'.socket = hostSocketId
               THEN /\ hostSocketId' = null
                    /\ emitted' = << HostChanged(connected, null) >>
               ELSE /\ hostSocketId' = hostSocketId
                    /\ emitted' = << >>
          /\ UNCHANGED <<pendingRequests, timers, connected>>]_vars

\* A client that is not the host has just sent give-up-host, and the host is
\* still the host.
C20_Witness ==
  /\ lastEvent.type = "give-up-host"
  /\ hostSocketId \in connected \ {lastEvent.socket}
  /\ emitted = << >>

\* The clients whose camera-update or model-transform the server would relay.
Forwarders == {s \in connected : isHostSocket(s)}

\* C13: once an event is fully processed at most one client passes the gate of
\* the relayed streams.
C13_OneForwarder == Cardinality(Forwarders) <= 1

\* The host role has moved from one connected client to another through an
\* expiry, and the new host has just had a message relayed.
C13_Witness ==
  /\ \E r \in ReqIds : resolutions[r] = << "expiry" >> /\ sentTo[r] \in connected
  /\ lastEvent.type \in {"camera-update", "model-transform"}
  /\ lastEvent.socket \in Forwarders
  /\ Len(emitted) = 1

\* C14: a camera-update or model-transform is relayed if and only if its sender
\* is hostSocketId when the server processes it; it then goes to every connected
\* client except the sender; one from any other client is dropped and changes
\* nothing.
C14_RelayGated ==
  [][lastEvent'.type \in {"camera-update", "model-transform"}
       => /\ emitted' = IF lastEvent'.socket = hostSocketId
                          THEN << Msg(lastEvent'.type, connected \ {lastEvent'.socket},
                                      null, NoRequest, null) >>
                          ELSE << >>
          /\ UNCHANGED <<hostSocketId, pendingRequests, timers, connected>>]_vars

\* The host's message was relayed to the other connected client.
C14_Witness ==
  /\ lastEvent.type = "camera-update"
  /\ lastEvent.socket = hostSocketId
  /\ Len(emitted) = 1
  /\ emitted[1].to = connected \ {hostSocketId}
  /\ emitted[1].to # {}

\* The product-upload-complete broadcasts among msgs.
Flushes(msgs) ==
  {i \in 1..Len(msgs) : msgs[i].event = "product-upload-complete"}

names(parts) == [i \in 1..Len(parts) |-> parts[i].name]

\* C16: an upload emits nothing, a product-upload-complete broadcast is only
\* emitted by the product-upload-complete handler, and each such broadcast
\* made for uploader s goes to every connected client, s among them, names s
\* as sender, leaves out none of the files s staged since its previous flush,
\* and leaves s's buffer empty.
C16_FlushOnlyOnSignal ==
  [][ /\ lastEvent'.type = "upload" => emitted' = << >>
      /\ Flushes(emitted') # {} => lastEvent'.type = "product-upload-complete"
      /\ \A i \in Flushes(emitted') :
           LET m == emitted'[i]
               s == lastEvent'.socket
           IN /\ m.to = connected
              /\ s \in m.to
              /\ m.sender = s
              /\ \A k \in 1..Len(stagedFiles[s]) :
                   \E j \in 1..Len(m.parts) : m.parts[j].name = stagedFiles[s][k]
              /\ Len(m.parts) >= Len(stagedFiles[s])
              /\ bufferOf(hostUploadBuffers', s) = << >>
    ]_vars

C16_Witness ==
  /\ lastEvent.type = "product-upload-complete"
  /\ Flushes(emitted) # {}
  /\ Cardinality(connected) >= 2

\* C17: when s sends product-upload-complete after host-role uploads of files
\* p1..pn under its id, exactly one broadcast is emitted, its parts are those
\* uploads in arrival order, each with its URL and s as sender and an id of
\* its own, and s's buffer is empty afterwards; when s has staged nothing
\* since its previous flush, nothing is emitted and nothing changes.
C17_BatchInOrderOnce ==
  [][ \A s \in Sockets :
        lastEvent' = Event("product-upload-complete", s, NoRequest) =>
          IF stagedFiles[s] # << >>
            THEN /\ Len(emitted') = 1
                 /\ emitted'[1].event = "product-upload-complete"
                 /\ names(emitted'[1].parts) = stagedFiles[s]
                 /\ \A i \in 1..Len(emitted'[1].parts) :
                      LET part == emitted'[1].parts[i] IN
                      /\ part.url = fileUrl(part.name)
                      /\ part.sender = s
                      /\ \A j \in 1..Len(emitted'[1].parts) :
                           j # i => emitted'[1].parts[j].id # part.id
                 /\ bufferOf(hostUploadBuffers', s) = << >>
            ELSE /\ emitted' = << >>
                 /\ UNCHANGED <<hostUploadBuffers, nextPartId, hostSocketId,
                                pendingRequests, timers, connected>>
    ]_vars

C17_Witness ==
  /\ lastEvent.type = "product-upload-complete"
  /\ Flushes(emitted) # {}
  /\ Len(emitted[1].parts) = 2
  /\ emitted[1].parts[1].name = "b.glb"
  /\ emitted[1].parts[2].name = "a.glb"

\* The parts held in a buffer or carried by a broadcast just emitted.
partsAbout ==
  UNION {{hostUploadBuffers[u][i] : i \in 1..Len(hostUploadBuffers[u])} :
           u \in DOMAIN hostUploadBuffers}
  \cup UNION {{emitted[i].parts[j] : j \in 1..Len(emitted[i].parts)} :
                i \in Flushes(emitted)}

\* C18: an upload of a file whose role header is not 'host' or absent, or that
\* has no socket id, is answered with the file's URL and changes no buffer;
\* and every part that is in a buffer or in a product-upload-complete
\* broadcast was created for a host-role upload made under a socket id.
C18_ViewerNeverStaged ==
  [][ /\ ( /\ lastEvent'.type = "upload"
           /\ request'.file # NoFile
           /\ request'.role # "host" \/ request'.uploaderId = undefined )
         => /\ response' = Response(200, fileUrl(request'.file), request'.file)
            /\ hostUploadBuffers' = hostUploadBuffers
            /\ emitted' = << >>
      /\ \A part \in partsAbout' : part.id \in hostStaged'
    ]_vars

C18_Witness ==
  /\ lastEvent.type = "upload"
  /\ request.role = "viewer"
  /\ request.uploaderId \in connected
  /\ response.status = 200
  /\ \E u \in DOMAIN hostUploadBuffers : Len(hostUploadBuffers[u]) > 0
  /\ hostStaged # {}

\* No message is in flight either way and no expiry timer is armed.
Quiet ==
  /\ \A s \in Sockets : inbox[s] = << >> /\ outbox[s] = << >>
  /\ timers = << >>

\* C15: once nothing is in flight and nothing is left to happen by itself,
\* every connected page holds the server's hostSocketId as its currentHostId
\* and has isHost set exactly when that id is its own; this includes pages
\* opened after the last host-changed broadcast.
C15_Converged ==
  Quiet => \A s \in connected :
             /\ clients[s].currentHostId = hostSocketId
             /\ clients[s].isHost = (hostSocketId = s)

\* C21: whatever the state, a register-host from connected client c makes c
\* the host and broadcasts host-changed(c) to every connected client, c among
\* them.
C21_RegisterAlways ==
  [][ \A c \in Sockets :
        lastEvent' = Event("register-host", c, NoRequest) =>
          /\ hostSocketId' = c
          /\ emitted' = << HostChanged(connected, c) >>
          /\ c \in connected
    ]_vars

\* register-host has just displaced another host while a request was pending.
C21_Witness ==
  /\ lastEvent.type = "register-host"
  /\ hostSocketId = lastEvent.socket
  /\ \E r \in DOMAIN pendingRequests : sentTo[r] \in connected \ {hostSocketId}
  /\ Len(emitted) = 1

\* C22: a host-pointer-toggle or host-pointer-update sent by the current host
\* is emitted to all the other connected clients, and one sent by a client
\* that is not the host is emitted to nobody.
C22_PointerRelayed ==
  [][ \A s \in Sockets :
        (lastEvent'.type \in PointerEvents /\ lastEvent'.socket = s) =>
          IF s = hostSocketId
            THEN connected \ {s} # {} =>
                   \E i \in 1..Len(emitted') :
                     /\ emitted'[i].event = lastEvent'.type
                     /\ emitted'[i].to = connected \ {s}
            ELSE emitted' = << >>
    ]_vars

\* C23: with armed timers firing, every request that enters pendingRequests
\* leaves it again, and once no further request is created pendingRequests
\* becomes empty and stays empty.
C23_RequestsEnd ==
  /\ \A r \in ReqIds : (r \in DOMAIN pendingRequests) ~> (r \notin DOMAIN pendingRequests)
  /\ <>[][nextRequestId' = nextRequestId]_vars => <>[](pendingRequests = << >>)

\* A request that nobody answered has been removed by its timer.
C23_Witness ==
  \E r \in ReqIds :
    /\ resolutions[r] = << "expiry" >>
    /\ r \notin DOMAIN pendingRequests
    /\ r \notin DOMAIN timers

\* C24: an upload request without a file is answered 400 in the step that
\* serves it, and that step leaves hostUploadBuffers, hostSocketId and
\* pendingRequests as they were and emits nothing.
C24_NoFileRejected ==
  [][ (lastEvent'.type = "upload" /\ request'.file = NoFile) =>
        /\ response'.status = 400
        /\ emitted' = << >>
        /\ UNCHANGED <<hostUploadBuffers, hostSocketId, pendingRequests>>
    ]_vars

\* A host-role request without a file was rejected while parts were staged.
C24_Witness ==
  /\ lastEvent.type = "upload"
  /\ request.file = NoFile
  /\ request.role = "host"
  /\ request.uploaderId \in connected
  /\ response.status = 400
  /\ \E u \in DOMAIN hostUploadBuffers : Len(hostUploadBuffers[u]) > 0

\* The requestIds whose expiry callback is still going to run.
armed == {timers[handle].requestId : handle \in DOMAIN timers}

\* C25: in every reachable state the requestIds with an armed expiry timer
\* are exactly the keys of pendingRequests, each record holding the handle of
\* its own timer: no record is without a live timer and no timer is left for
\* a record that was removed.
C25_TimersMatchRequests ==
  /\ armed = DOMAIN pendingRequests
  /\ \A r \in DOMAIN pendingRequests :
       /\ pendingRequests[r].timeout \in DOMAIN timers
       /\ timers[pendingRequests[r].timeout].requestId = r

\* One request has been resolved and its timer is gone while another is
\* still pending with its timer armed.
C25_Witness ==
  /\ \E r \in ReqIds : resolutions[r] # << >> /\ r \notin armed
  /\ \E r \in DOMAIN pendingRequests : r \in armed

\* C26: in every reachable state hostSocketId is empty or the id of a
\* connected client, and the requester of every record of pendingRequests,
\* which is who a release or an expiry makes host, is a connected client.
C26_HostConnected ==
  /\ falsy(hostSocketId) \/ hostSocketId \in connected
  /\ \A r \in DOMAIN pendingRequests : pendingRequests[r].requester \in connected
  /\ \A handle \in DOMAIN timers : timers[handle].socket \in connected

\* A client has left and another one is host with a request pending.
C26_Witness ==
  /\ gone # {}
  /\ hostSocketId \in connected
  /\ pendingRequests # << >>

\* The server takes from socket s an event of this type that a click handler
\* of the page emitted.
TakesClick(s, type) ==
  /\ outbox[s] # << >>
  /\ Head(outbox[s]).type = type
  /\ Head(outbox[s]).site = "button"
  /\ outbox'[s] = Tail(outbox[s])
  /\ lastEvent' = Event(type, s, NoRequest)

\* C27: when the server handles a register-host that the Host button of a
\* page emitted, which the button does only while the page's currentHostId is
\* empty, no other client is host at the server; this includes pages opened
\* after the last host-changed broadcast and messages still in flight.
C27_NoSilentDisplacement ==
  [][ \A s \in Sockets :
        TakesClick(s, "register-host") => falsy(hostSocketId) \/ hostSocketId = s
    ]_vars

\* C28: once the server has handled the cancel-host-request that the Viewer
\* button of page s emitted, pendingRequests holds no record whose requester
\* is s, so that nothing can make s host unless it asks again.
C28_CancelRemoves ==
  [][ \A s \in Sockets :
        TakesClick(s, "cancel-host-request") =>
          \A r \in DOMAIN pendingRequests' : pendingRequests'[r].requester # s
    ]_vars

\* C29: every product-upload-complete broadcast names as sender the client
\* that is the server's host when it is emitted.
C29_FlushByHost ==
  \A i \in Flushes(emitted) : emitted[i].sender = hostSocketId

\* Page s has a run of the upload handler that has not ended.
uploading(s) == selections[s] # << >>

\* Page s has a run that has uploaded some of its files and not all.
partly(s) == \E k \in 1..Len(selections[s]) : selections[s][k].sent > 0

\* C30: the completion timer of a page fires, and so the page emits
\* product-upload-complete, only while none of its selections is uploading;
\* and the server never flushes the batch of a page that has uploaded only
\* part of a selection.
C30_CompleteAfterUploads ==
  [][ \A s \in Sockets :
        /\ (completeTimer[s] /\ ~completeTimer'[s] /\ outbox'[s] # outbox[s])
             => ~uploading(s)
        /\ ( /\ outbox[s] # << >>
             /\ outbox'[s] = Tail(outbox[s])
             /\ lastEvent' = Event("product-upload-complete", s, NoRequest)
             /\ Flushes(emitted') # {} )
             => ~partly(s)
    ]_vars

\* C31: in every reachable state each client is the requester of at most one
\* record of pendingRequests, so that once a request of a client is denied no
\* other request of it is left whose expiry could still make it host.
C31_OneRequestEach ==
  \A s \in Sockets : Cardinality(requestsOf(pendingRequests, s)) <= 1

\* C32: every step that changes hostSocketId emits, in that step, exactly
\* one host-changed broadcast, sent to all connected clients and carrying the
\* new value; and after every step the payload of the most recent
\* host-changed broadcast is hostSocketId (before the first broadcast
\* hostSocketId is still none).
C32_ChangeAnnounced ==
  [][ /\ hostSocketId' # hostSocketId
           => /\ emitted' = << HostChanged(connected', hostSocketId') >>
              /\ connected' = connected \/ connected' = connected \ {lastEvent'.socket}
      /\ IF announced' = << >> THEN hostSocketId' = null
                               ELSE announced' = << hostSocketId' >>
    ]_vars

\* The host has just released the role to a requester: the role has moved
\* between two connected clients, and both were told.
C32_Witness ==
  /\ lastEvent.type = "release-host"
  /\ lastEvent.requestId \in ReqIds
  /\ resolutions[lastEvent.requestId] = << "accept" >>
  /\ sentTo[lastEvent.requestId] \in connected \ {hostSocketId}
  /\ hostSocketId \in connected
  /\ announced = << hostSocketId >>
  /\ Len(emitted) = 1
  /\ emitted[1].to = connected

\* ---------------------------------------------------------------- one page
\* One page followed to the end of its requests.  The page is a client like
\* any other that stays connected.  The other sockets are the hosts it asks:
\* they come and go, take the role with register-host, give it up, and
\* answer or ignore the page's requests; they do not ask for the role
\* themselves, and what the server sends them is not kept.  Socket ids are
\* opaque to the server, so the page may as well be the last socket to
\* connect: the others are there before it, with or without a host among them.
Page == NumSockets

\* What the server emitted in this step reaches the page, behind what it has
\* not handled yet and in the order it was emitted.
PageDispatch ==
  /\ inbox' = [inbox EXCEPT ![Page] =
                 IF Page \in connected' THEN @ \o addressed(emitted', Page) ELSE << >>]
  /\ Len(inbox'[Page]) <= MaxInFlight

\* The request-host events of the page that the server has not handled yet.
reserved(out) == Len(SelectSeq(out[Page], LAMBDA e : e.type = "request-host"))

\* The server handles the oldest event of the page.
PageServed ==
  \/ Receive(Page, "register-host") /\ RegisterHost(Page) /\ PageDispatch
       /\ UNCHANGED controlVars
  \/ Receive(Page, "request-host") /\ RequestHost(Page) /\ PageDispatch
       /\ UNCHANGED controlVars
  \/ Receive(Page, "give-up-host") /\ GiveUpHost(Page) /\ PageDispatch
       /\ UNCHANGED controlVars
  \/ /\ Receive(Page, "cancel-host-request")
     /\ NoHandler(Page, "cancel-host-request")
     /\ PageDispatch
     /\ UNCHANGED controlVars

\* The page handles the oldest message sent to it.
PageDelivered == Deliver(Page) /\ UNCHANGED controlVars

\* The callback of an armed timer runs.
PageExpiry(handle) ==
  Expiry(handle) /\ PageDispatch /\ UNCHANGED <<clients, outbox, controlVars>>

\* The page, the server and the other sockets.  No more than MaxFairRequests
\* requests are created: request-host is emitted only while a request id is
\* left for it.  The others send release-host and deny-host for the requests
\* that are pending, and give-up-host as host: sent otherwise, these events
\* change nothing.
NextPage ==
  \/ \E role \in PageRoles : Open(Page, role)
       /\ UNCHANGED controlVars
  \/ HostButton(Page)
       /\ nextRequestId + reserved(outbox') <= MaxFairRequests + 1
       /\ UNCHANGED controlVars
  \/ ViewerButton(Page)
       /\ UNCHANGED controlVars
  \/ PageDelivered
  \/ PageServed
  \/ \E handle \in ReqIds : PageExpiry(handle)
  \/ \E s \in Sockets \ {Page} : Connection(s)
       /\ UNCHANGED pageVars
  \/ \E s \in Sockets \ {Page} : Disconnect(s) /\ PageDispatch
       /\ UNCHANGED <<clients, outbox, controlVars>>
  \/ \E s \in Sockets \ {Page} : RegisterHost(s) /\ PageDispatch
       /\ UNCHANGED <<clients, outbox, controlVars>>
  \/ \E s \in (Sockets \ {Page}) \cap {hostSocketId} : GiveUpHost(s) /\ PageDispatch
       /\ UNCHANGED <<clients, outbox, controlVars>>
  \/ \E s \in AnySender, requestId \in DOMAIN pendingRequests :
       ReleaseHost(s, requestId) /\ PageDispatch
       /\ UNCHANGED <<clients, outbox, controlVars>>
  \/ \E s \in AnySender, requestId \in DOMAIN pendingRequests :
       DenyHost(s, requestId) /\ PageDispatch
       /\ UNCHANGED <<clients, outbox, controlVars>>

\* Reliable ordered delivery both ways, and timers that fire: an event of the
\* page is handled by the server, a message to the page is handled by it, and
\* the callback of an armed timer runs.
PageFairness ==
  /\ WF_vars(PageServed)
  /\ WF_vars(PageDelivered)
  /\ \A handle \in ReqIds : WF_vars(PageExpiry(handle))

SpecPage == Init /\ [][NextPage]_vars /\ PageFairness

\* C33: with timers firing and messages delivered in order, whenever the
\* page has emitted request-host and holds hostRequestPending true, the flag
\* becomes false again.
C33_PendingEnds ==
  clients[Page].hostRequestPending ~> ~clients[Page].hostRequestPending

\* The page asked for the role, nobody answered, and the host-changed of the
\* expiry has reset its flag and made it host.
C33_Witness ==
  /\ \E r \in ReqIds : resolutions[r] = << "expiry" >> /\ sentTo[r] \in connected \ {Page}
  /\ hostSocketId = Page
  /\ clients[Page].isHost
  /\ ~clients[Page].hostRequestPending
  /\ inbox[Page] = << >>

\* ---------------------------------------------------------------- view
\* orbitControls 'change' and dragControls 'drag': the page shows the pose or
\* transform its user has just set and, if it is host, emits it.
Control(s, stream) ==
  /\ s \in connected
  /\ scene' = [scene EXCEPT ![s][stream] = "local"]
  /\ IF clients[s].isHost THEN send(s, Emit(stream, NoRequest))
                          ELSE UNCHANGED outbox
  /\ UNCHANGED <<hostVars, uploadVars, clients, inbox, pickerVars>>

Orbit(s) == Control(s, "camera-update")

Drag(s) == Control(s, "model-transform")

\* The listeners of the two streams, run on the oldest message not yet
\* handled: a page that is not host shows what the message carries.
\* (Variant: the listeners lack their test of isHost.)
ShowMut(s) ==
  LET m == Head(inbox[s]) IN
  scene' = IF m.event \in Streams THEN [scene EXCEPT ![s][m.event] = "remote"]
                                  ELSE scene
Show(s) ==
  LET m == Head(inbox[s]) IN
  scene' = IF m.event \in Streams /\ ~clients[s].isHost
             THEN [scene EXCEPT ![s][m.event] = "remote"]
             ELSE scene

\* The page, its controls and what it is sent; the server and the other
\* sockets, which come and go, take the role and give it up, and send the two
\* streams as host.  Nobody asks a host for the role here.
NextView ==
  \/ \E role \in PageRoles : Open(Page, role)
       /\ UNCHANGED controlVars
  \/ HostButton(Page)
       /\ ~clients'[Page].hostRequestPending
       /\ UNCHANGED controlVars
  \/ ViewerButton(Page)
       /\ UNCHANGED controlVars
  \/ Deliver(Page) /\ Show(Page)
       /\ UNCHANGED pickerVars
  \/ Orbit(Page)
  \/ Drag(Page)
  \/ Receive(Page, "register-host") /\ RegisterHost(Page) /\ PageDispatch
       /\ UNCHANGED controlVars
  \/ Receive(Page, "give-up-host") /\ GiveUpHost(Page) /\ PageDispatch
       /\ UNCHANGED controlVars
  \/ Receive(Page, "camera-update") /\ CameraUpdate(Page) /\ PageDispatch
       /\ UNCHANGED controlVars
  \/ Receive(Page, "model-transform") /\ ModelTransform(Page) /\ PageDispatch
       /\ UNCHANGED controlVars
  \/ \E s \in Sockets \ {Page} : Connection(s)
       /\ UNCHANGED pageVars
  \/ \E s \in Sockets \ {Page} : Disconnect(s) /\ PageDispatch
       /\ UNCHANGED <<clients, outbox, controlVars>>
  \/ \E s \in Sockets \ {Page} : RegisterHost(s) /\ PageDispatch
       /\ UNCHANGED <<clients, outbox, controlVars>>
  \/ \E s \in (Sockets \ {Page}) \cap {hostSocketId} : GiveUpHost(s) /\ PageDispatch
       /\ UNCHANGED <<clients, outbox, controlVars>>
  \/ \E s \in (Sockets \ {Page}) \cap {hostSocketId} : CameraUpdate(s) /\ PageDispatch
       /\ UNCHANGED <<clients, outbox, controlVars>>
  \/ \E s \in (Sockets \ {Page}) \cap {hostSocketId} : ModelTransform(s) /\ PageDispatch
       /\ UNCHANGED <<clients, outbox, controlVars>>

SpecView == Init /\ [][NextView]_vars

\* Page s handles message m, the oldest one sent to it.
Handles(s, m) ==
  /\ inbox[s] # << >>
  /\ Head(inbox[s]) = m
  /\ inbox'[s] = Tail(inbox[s])
  /\ UNCHANGED hostVars

\* Page s emits an event of this type.
Emits(s, type) ==
  /\ Len(outbox'[s]) = Len(outbox[s]) + 1
  /\ outbox'[s][Len(outbox'[s])].type = type

\* C34: once the page has handled host-changed(h) its currentHostId is h
\* and its isHost flag is true exactly if h is not empty and is the page's
\* own socket id; a camera-update or model-transform that the page handles
\* while its isHost flag is true changes nothing of what it shows; and the page
\* emits neither of the two while the flag is false.
C34_HostFlagGates ==
  [][ \A s \in Sockets :
        /\ \A h \in Sockets \cup {null, undefined}, to \in SUBSET Sockets :
             Handles(s, HostChanged(to, h))
               => /\ clients'[s].currentHostId = h
                  /\ clients'[s].isHost = (h \notin {null, undefined} /\ h = s)
        /\ \A stream \in Streams, to \in SUBSET Sockets :
             (Handles(s, Msg(stream, to, null, NoRequest, null)) /\ clients[s].isHost)
               => /\ scene'[s] = scene[s]
                  /\ clients'[s] = clients[s]
        /\ \A stream \in Streams : Emits(s, stream) => clients[s].isHost
    ]_vars

\* The page, host by its own account and showing its own camera pose, has
\* just handled a camera-update relayed from the host the server knows; and
\* the page has told the server nothing yet.
C34_Witness ==
  /\ clients[Page].isHost
  /\ hostSocketId \in connected \ {Page}
  /\ lastEvent = Event("camera-update", hostSocketId, NoRequest)
  /\ Len(emitted) = 1
  /\ Page \in emitted[1].to
  /\ inbox[Page] = << >>
  /\ scene[Page]["camera-update"] = "local"

\* C35: the disconnect of a client that is neither the host nor the
\* requester of a pending request changes neither hostSocketId nor
\* pendingRequests nor the timers and emits nothing; and the disconnect of any
\* client leaves every pending request of another requester, and its timer,
\* as they were.
C35_DisconnectFrame ==
  [][ (lastEvent'.type = "disconnect" /\ connected' # connected) =>
        LET s == lastEvent'.socket IN
        /\ ( /\ s # hostSocketId
             /\ \A r \in DOMAIN pendingRequests : pendingRequests[r].requester # s )
             => /\ UNCHANGED <<hostSocketId, pendingRequests, timers>>
                /\ emitted' = << >>
        /\ \A r \in DOMAIN pendingRequests :
             pendingRequests[r].requester # s
               => /\ r \in DOMAIN pendingRequests'
                  /\ pendingRequests'[r] = pendingRequests[r]
                  /\ r \in DOMAIN timers'
                  /\ timers'[r] = timers[r]
    ]_vars

\* A client that is neither host nor requester has just left while the
\* request of another client, who has become host in the meantime, is pending.
C35_Witness ==
  /\ lastEvent.type = "disconnect"
  /\ lastEvent.socket \in gone
  /\ emitted = << >>
  /\ hostSocketId \in connected
  /\ \E r \in DOMAIN pendingRequests :
       /\ sentTo[r] = lastEvent.socket
       /\ r \in DOMAIN timers

\* The parts of a buffer.
partsOf(buffer) == {buffer[i] : i \in 1..Len(buffer)}

\* C36: once an uploader has disconnected, no product-upload-complete
\* broadcast, whoever it is made for, contains a part staged under that
\* uploader's id; what the uploader had staged and not flushed stays in its
\* buffer.
C36_OrphanNeverFlushed ==
  /\ \A i \in Flushes(emitted) :
       \A part \in partsOf(emitted[i].parts) : part.sender \notin gone
  /\ \A u \in gone :
       names(bufferOf(hostUploadBuffers, u)) = stagedFiles[u]

\* An uploader has left with a part staged and not flushed, and another
\* client has just had its own batch flushed.
C36_Witness ==
  /\ lastEvent.type = "product-upload-complete"
  /\ Flushes(emitted) # {}
  /\ \E u \in gone : Len(bufferOf(hostUploadBuffers, u)) > 0
====
